---- MODULE Spec2Model ----
(***************************************************************************)
(* A model of src/index.js: the subtitle pipeline (main), the concurrent   *)
(* segment translator (translateSegmentsWithGPT), the SRT builder          *)
(* (buildSrtFromSegments) and the time formatter (secondsToSrtTime).       *)
(*                                                                         *)
(* JavaScript strings are sequences of one-character strings, so that      *)
(* trim, padStart and the line structure of a document are computed, not   *)
(* assumed.  A character that has no notation in a TLA+ string is the      *)
(* string of its JavaScript escape: "\\u00A0" is the one code unit U+00A0. *)
(* A JavaScript number holding a time is [nan, ticks]: NaN, or a whole     *)
(* number of ticks of 1/3000 s.  Every millisecond is a whole number of    *)
(* ticks, and the fractions in between are thirds of a millisecond, so     *)
(* Math.round never sits on a tie and the double arithmetic of the source  *)
(* gives exactly the integer arithmetic below.                             *)
(***************************************************************************)
EXTENDS Integers, Sequences, FiniteSets, TLC

VARIABLES
    files,        \* the content of ./videos: a sequence of [base, ext]
    videoFiles,   \* main: the filtered listing
    vi,           \* main: position of the for-loop in videoFiles (0 before it)
    pc,           \* main: the await at which main is suspended, or "done"
    segments,     \* main: the segments the transcription returned
    requests,     \* one createChatCompletion promise per segment
    arrival,      \* the indices of the settled requests, in completion order
    translated,   \* main: translatedSegments
    srtContent,   \* main: srtContent
    audioFiles,   \* base names whose extracted .mp3 exists
    srtFiles,     \* base names whose .srt exists
    outFiles,     \* base names whose burned-in .mp4 exists
    log,          \* what console.log / console.error printed, in order
    arg,          \* a direct call of a pure function: [fn, in]
    result        \* [called, value]: whether it returned, and what

vars == <<files, videoFiles, vi, pc, segments, requests, arrival, translated,
          srtContent, audioFiles, srtFiles, outFiles, log, arg, result>>

pipelineVars == <<files, videoFiles, vi, pc, segments, requests, arrival,
                  translated, srtContent, audioFiles, srtFiles, outFiles, log>>

\* Bounds of the model.
MaxFiles == 2
MaxSegs == 2

\* One second, in ticks.
TicksPerSecond == 3 * 1000

-----------------------------------------------------------------------------
\* JavaScript numbers and strings

NaN == [nan |-> TRUE, v |-> 0]
Num(k) == [nan |-> FALSE, v |-> k]

\* A time of k ticks (k / 3000 seconds).
Ticks(k) == Num(k)

DigitChars == <<"0", "1", "2", "3", "4", "5", "6", "7", "8", "9">>

RECURSIVE NatToString(_)
NatToString(n) ==
    IF n < 10 THEN <<DigitChars[n + 1]>>
    ELSE NatToString(n \div 10) \o <<DigitChars[(n % 10) + 1]>>

\* String(x) of an integer-valued number or NaN.
JsString(x) ==
    IF x.nan THEN <<"N", "a", "N">>
    ELSE IF x.v < 0 THEN <<"-">> \o NatToString(-x.v)
    ELSE NatToString(x.v)

\* s.padStart(n, ch) for a one-character ch.
RECURSIVE padStart(_, _, _)
padStart(s, n, ch) ==
    IF Len(s) >= n THEN s ELSE padStart(<<ch>> \o s, n, ch)

\* a % n of JavaScript for n > 0: the remainder takes the sign of a.
JsRemainder(a, n) == IF a >= 0 THEN a % n ELSE -((-a) % n)

\* Math.round(p / q) for q > 0: the nearest integer, ties towards +Infinity.
MathRound(p, q) == (2 * p + q) \div (2 * q)

\* The code units String.prototype.trim removes: the WhiteSpace and the
\* LineTerminator characters of ECMAScript (U+0009-000D, U+0020, U+00A0,
\* U+1680, U+2000-200A, U+2028, U+2029, U+202F, U+205F, U+3000, U+FEFF).
WhiteSpace ==
    { "\t", "\n", "\\u000B", "\f", "\r", " ", "\\u00A0", "\\u1680",
      "\\u2000", "\\u2001", "\\u2002", "\\u2003", "\\u2004", "\\u2005",
      "\\u2006", "\\u2007", "\\u2008", "\\u2009", "\\u200A",
      "\\u2028", "\\u2029", "\\u202F", "\\u205F", "\\u3000", "\\uFEFF" }

RECURSIVE TrimStart(_)
TrimStart(s) ==
    IF s # <<>> /\ s[1] \in WhiteSpace THEN TrimStart(Tail(s)) ELSE s

RECURSIVE TrimEnd(_)
TrimEnd(s) ==
    IF s # <<>> /\ s[Len(s)] \in WhiteSpace
    THEN TrimEnd(SubSeq(s, 1, Len(s) - 1)) ELSE s

\* s.trim()
JsTrim(s) == TrimEnd(TrimStart(s))

\* The sequence of characters as one TLA+ string.
RECURSIVE Str(_)
Str(s) == IF s = <<>> THEN "" ELSE s[1] \o Str(Tail(s))

-----------------------------------------------------------------------------
\* secondsToSrtTime and buildSrtFromSegments

secondsToSrtTime(totalSeconds) ==
    LET t == totalSeconds.v
        hours == IF totalSeconds.nan THEN NaN
                 ELSE Num(t \div (3600 * TicksPerSecond))
        minutes == IF totalSeconds.nan THEN NaN
                   ELSE Num(JsRemainder(t, 3600 * TicksPerSecond)
                              \div (60 * TicksPerSecond))
        seconds == IF totalSeconds.nan THEN NaN
                   ELSE Num(JsRemainder(t, 60 * TicksPerSecond)
                              \div TicksPerSecond)
        milliseconds ==
            IF totalSeconds.nan THEN NaN
            ELSE Num(MathRound((t - (t \div TicksPerSecond) * TicksPerSecond) * 1000,
                               TicksPerSecond))
        hh == padStart(JsString(hours), 2, "0")
        mm == padStart(JsString(minutes), 2, "0")
        ss == padStart(JsString(seconds), 2, "0")
        mmm == padStart(JsString(milliseconds), 3, "0")
    IN  hh \o <<":">> \o mm \o <<":">> \o ss \o <<",">> \o mmm

\* The block numbered with the segment's own id instead of its position.
CueBlockNumberedById(seg, i) ==
    JsString(Num(seg.id)) \o <<"\n">>
    \o secondsToSrtTime(seg.start) \o <<" ", "-", "-", ">", " ">>
    \o secondsToSrtTime(seg.end) \o <<"\n">>
    \o seg.text \o <<"\n", "\n">>

\* What one iteration of the forEach appends for the segment at 0-based i.
CueBlock(seg, i) ==
    LET startTime == secondsToSrtTime(seg.start)
        endTime == secondsToSrtTime(seg.end)
    IN  JsString(Num(i + 1)) \o <<"\n">>
        \o startTime \o <<" ", "-", "-", ">", " ">> \o endTime \o <<"\n">>
        \o seg.text \o <<"\n", "\n">>

RECURSIVE SrtForEach(_, _, _)
SrtForEach(segs, i, srt) ==
    IF i >= Len(segs) THEN srt
    ELSE SrtForEach(segs, i + 1, srt \o CueBlock(segs[i + 1], i))

buildSrtFromSegments(segs) == SrtForEach(segs, 0, <<>>)

-----------------------------------------------------------------------------
\* The values the collaborators can hand to the program

SeqsUpTo(S, n) == UNION {[1..k -> S] : k \in 0..n}

\* ./videos holds at most MaxFiles of these files; fs.readdir lists them in
\* name order.
FilePool ==
    { [base |-> "a", ext |-> ".mp4"],
      [base |-> "b", ext |-> ".MOV"],
      [base |-> "notes", ext |-> ".txt"] }

NameOrder == <<"a", "b", "notes">>

Position(f) == CHOOSE k \in 1..Len(NameOrder) : NameOrder[k] = f.base

Listings ==
    { l \in SeqsUpTo(FilePool, MaxFiles) :
        \A i, j \in 1..Len(l) : i < j => Position(l[i]) < Position(l[j]) }

\* Segments of a verbose_json transcription.  1.2 s is 3600 ticks and 3.5 s
\* is 10500 ticks.  SegBad has a negative start, and an end that reads as
\* NaN (secondsToSrtTime of a missing or non-numeric field computes with NaN).
SegA == [id |-> 0, start |-> Ticks(0), end |-> Ticks(3600),
         text |-> <<"H", "a", "l", "l", "o">>]
SegB == [id |-> 1, start |-> Ticks(3600), end |-> Ticks(10500),
         text |-> <<"W", "i", "e", " ", "g", "e", "h", "t", "'", "s", "?">>]
SegBad == [id |-> 7, start |-> Ticks(-4500), end |-> NaN, text |-> <<"x">>]

SegmentPool == {SegA, SegB, SegBad}

Transcripts == SeqsUpTo(SegmentPool, MaxSegs)

\* What a chat completion can carry: choices[0].message.content, a first
\* choice without message or content, or no choice at all.
NoValue == [kind |-> "none", content |-> <<>>]
Hello == <<"H", "e", "l", "l", "o">>

\* A content of white space only: a no-break space, a form feed, a newline.
Blank == <<"\\u00A0", "\f", "\n">>

Completions ==
    { [kind |-> "content", content |-> <<" ">> \o Hello \o <<"\n">>],
      [kind |-> "content", content |-> Blank],
      [kind |-> "noContent", content |-> <<>>],
      [kind |-> "noChoices", content |-> <<>>] }

Pending == [status |-> "pending", value |-> NoValue]
Fulfilled(resp) == [status |-> "fulfilled", value |-> resp]
Rejected == [status |-> "rejected", value |-> NoValue]
Lost == [status |-> "lost", value |-> NoValue]

-----------------------------------------------------------------------------
\* translateSegmentsWithGPT

\* One request more than there are segments.
IssueRequestsOneTooMany(segs) == [i \in 1..(Len(segs) + 1) |-> Pending]

\* Only the first request is issued up front (the others would follow one
\* by one).
IssueFirstRequestOnly(segs) ==
    [i \in 1..(IF Len(segs) = 0 THEN 0 ELSE 1) |-> Pending]

\* segments.map(...): one request per segment, all issued at once.
IssueRequests(segs) == [i \in 1..Len(segs) |-> Pending]

\* Promise.allSettled in the place of Promise.all: waits for every request
\* and never rejects.
PromiseAllSettledState(reqs) ==
    IF \A i \in 1..Len(reqs) : reqs[i].status \in {"fulfilled", "rejected"}
    THEN "fulfilled" ELSE "pending"

\* Promise.race / Promise.any in the place of Promise.all: settles with the
\* first request that settles.
PromiseFirstState(reqs) ==
    IF \E i \in 1..Len(reqs) : reqs[i].status = "rejected" THEN "rejected"
    ELSE IF Len(reqs) = 0 \/ \E i \in 1..Len(reqs) : reqs[i].status = "fulfilled"
    THEN "fulfilled"
    ELSE "pending"

\* The promise Promise.all(promises) makes: rejected as soon as one request
\* is rejected, fulfilled once every request is fulfilled.
PromiseAllState(reqs) ==
    IF \E i \in 1..Len(reqs) : reqs[i].status = "rejected" THEN "rejected"
    ELSE IF \A i \in 1..Len(reqs) : reqs[i].status = "fulfilled" THEN "fulfilled"
    ELSE "pending"

\* The responses collected as they arrive instead of by index.
PromiseAllValueInArrivalOrder(reqs, order) ==
    [k \in 1..Len(reqs) |-> reqs[order[k]].value]

\* The array Promise.all fulfils with: the i-th value is the i-th promise's,
\* whatever the order in which the promises settled.
PromiseAllValue(reqs, order) == [i \in 1..Len(reqs) |-> reqs[i].value]

\* responses[i].data.choices[0] is undefined: reading .message throws.
ReadThrows(resp) == resp.kind = "noChoices"

\* The content taken as it came, without trim().
TranslatedTextUntrimmed(resp) ==
    IF resp.kind = "content" THEN resp.content ELSE <<>>

\* responses[i].data.choices[0].message?.content?.trim() || ''
TranslatedText(resp) ==
    IF resp.kind = "content" THEN JsTrim(resp.content) ELSE <<>>

\* A new object that takes the end of the segment from its start.
TranslatedSegmentWithoutEnd(seg, resp) ==
    [seg EXCEPT !.text = TranslatedText(resp), !.end = seg.start]

\* { ...seg, text: translatedText }
TranslatedSegment(seg, resp) == [seg EXCEPT !.text = TranslatedText(resp)]

\* segments.map((seg, i) => ...) over the responses.
MapThrows(responses) == \E i \in 1..Len(responses) : ReadThrows(responses[i])

TranslatedSegments(segs, responses) ==
    [i \in 1..Len(segs) |-> TranslatedSegment(segs[i], responses[i])]

-----------------------------------------------------------------------------
\* main

validExtensions == {".mp4", ".mov", ".avi", ".mkv"}

extname(f) == f.ext
baseName(f) == f.base

\* toLowerCase on the extensions of FilePool.
ToLowerCase(e) == IF e = ".MOV" THEN ".mov" ELSE e

FilterVideoFiles(fs) ==
    SelectSeq(fs, LAMBDA f : ToLowerCase(extname(f)) \in validExtensions)

Line(msg, info) == [msg |-> msg, info |-> info]

AwaitPoints ==
    {"ensureSubtitlesDir", "ensureOutputDir", "readdir", "extractAudio",
     "createTranscription", "writeFile", "burnSubtitles", "remove"}

Init ==
    /\ files \in Listings
    /\ videoFiles = <<>>
    /\ vi = 0
    /\ pc = "ensureSubtitlesDir"
    /\ segments = <<>>
    /\ requests = <<>>
    /\ arrival = <<>>
    /\ translated = <<>>
    /\ srtContent = <<>>
    /\ audioFiles = {}
    /\ srtFiles = {}
    /\ outFiles = {}
    /\ log = <<>>
    /\ arg = [fn |-> "none", in |-> <<>>]
    /\ result = [called |-> FALSE, value |-> <<>>]

\* The success message printed after the try/catch instead of inside the try.
CatchThenSuccess(err) ==
    /\ log' = log \o <<Line("Erro geral", err), Line("Processo concluido", "")>>
    /\ pc' = "done"

\* catch (err) { console.error('Erro geral:', err) }: main ends.
Catch(err) ==
    /\ log' = Append(log, Line("Erro geral", err))
    /\ pc' = "done"

\* The iteration goes to the transcription without waiting for extractAudio.
StartVideoWithoutExtraction(k, vf) ==
    /\ vi' = k
    /\ log' = Append(log, Line("PROCESSANDO", baseName(vf[k])))
    /\ segments' = <<>>
    /\ requests' = <<>>
    /\ arrival' = <<>>
    /\ translated' = <<>>
    /\ srtContent' = <<>>
    /\ pc' = "createTranscription"

\* The head of one iteration of the for-loop, up to the await of extractAudio.
StartVideo(k, vf) ==
    /\ vi' = k
    /\ log' = Append(log, Line("PROCESSANDO", baseName(vf[k])))
    /\ segments' = <<>>
    /\ requests' = <<>>
    /\ arrival' = <<>>
    /\ translated' = <<>>
    /\ srtContent' = <<>>
    /\ pc' = "extractAudio"

\* From the fulfilment of Promise.all to the await of fs.writeFile.
TranslateReturns(reqs, order, lg) ==
    LET responses == PromiseAllValue(reqs, order)
        out == TranslatedSegments(segments', responses)
    IN  IF MapThrows(responses)
        THEN /\ log' = Append(lg, Line("Erro geral", "TypeError"))
             /\ pc' = "done"
             /\ UNCHANGED <<translated, srtContent>>
        ELSE /\ translated' = out
             /\ srtContent' = buildSrtFromSegments(out)
             /\ log' = lg
             /\ pc' = "writeFile"

\* await fs.ensureDir(SUBTITLES_DIR): main goes on to the second ensureDir.
EnsureSubtitlesDir ==
    /\ pc = "ensureSubtitlesDir"
    /\ pc' = "ensureOutputDir"
    /\ UNCHANGED <<files, videoFiles, vi, segments, requests, arrival, translated,
                   srtContent, audioFiles, srtFiles, outFiles, log, arg, result>>

\* await fs.ensureDir(OUTPUT_DIR): main goes on to fs.readdir.
EnsureOutputDir ==
    /\ pc = "ensureOutputDir"
    /\ pc' = "readdir"
    /\ UNCHANGED <<files, videoFiles, vi, segments, requests, arrival, translated,
                   srtContent, audioFiles, srtFiles, outFiles, log, arg, result>>

ReadDir ==
    /\ pc = "readdir"
    /\ videoFiles' = FilterVideoFiles(files)
    /\ IF Len(videoFiles') = 0
       THEN /\ log' = Append(log, Line("Nenhum arquivo", ""))
            /\ pc' = "done"
            /\ UNCHANGED <<vi, segments, requests, arrival, translated, srtContent>>
       ELSE StartVideo(1, videoFiles')
    /\ UNCHANGED <<files, audioFiles, srtFiles, outFiles, arg, result>>

ExtractAudioEnds ==
    /\ pc = "extractAudio"
    /\ audioFiles' = audioFiles \cup {baseName(videoFiles[vi])}
    /\ log' = Append(log, Line("Transcrevendo", ""))
    /\ pc' = "createTranscription"
    /\ UNCHANGED <<files, videoFiles, vi, segments, requests, arrival, translated,
                   srtContent, srtFiles, outFiles, arg, result>>

TranscriptionResponds(segs) ==
    /\ pc = "createTranscription"
    /\ segments' = segs
    /\ requests' = IssueRequests(segs)
    /\ arrival' = <<>>
    /\ LET lg == Append(log, Line("Traduzindo", ""))
       IN  IF PromiseAllState(requests') = "fulfilled"
           THEN TranslateReturns(requests', arrival', lg)
           ELSE /\ log' = lg
                /\ pc' = "translate"
                /\ UNCHANGED <<translated, srtContent>>
    /\ UNCHANGED <<files, videoFiles, vi, audioFiles, srtFiles, outFiles, arg, result>>

ChatCompletionResponds(i, resp) ==
    /\ i \in 1..Len(requests)
    /\ requests[i].status = "pending"
    /\ requests' = [requests EXCEPT ![i] = Fulfilled(resp)]
    /\ arrival' = Append(arrival, i)
    /\ UNCHANGED segments
    /\ IF pc = "translate" /\ PromiseAllState(requests') = "fulfilled"
       THEN TranslateReturns(requests', arrival', log)
       ELSE UNCHANGED <<pc, log, translated, srtContent>>
    /\ UNCHANGED <<files, videoFiles, vi, audioFiles, srtFiles, outFiles, arg, result>>

\* The rejected request is issued again.
ChatCompletionFailsAndRetries(i) ==
    /\ i \in 1..Len(requests)
    /\ requests[i].status = "pending"
    /\ requests' = [requests EXCEPT ![i] = Pending]
    /\ arrival' = Append(arrival, i)
    /\ UNCHANGED <<files, videoFiles, vi, pc, segments, translated, srtContent,
                   audioFiles, srtFiles, outFiles, log, arg, result>>

ChatCompletionFails(i) ==
    /\ i \in 1..Len(requests)
    /\ requests[i].status = "pending"
    /\ requests' = [requests EXCEPT ![i] = Rejected]
    /\ arrival' = Append(arrival, i)
    /\ IF pc = "translate" /\ PromiseAllState(requests') = "rejected"
       THEN Catch("createChatCompletion")
       ELSE UNCHANGED <<pc, log>>
    /\ UNCHANGED <<files, videoFiles, vi, segments, translated, srtContent,
                   audioFiles, srtFiles, outFiles, arg, result>>

\* The request never receives a response; the source sets no timeout.
ChatCompletionLost(i) ==
    /\ i \in 1..Len(requests)
    /\ requests[i].status = "pending"
    /\ requests' = [requests EXCEPT ![i] = Lost]
    /\ UNCHANGED <<files, videoFiles, vi, pc, segments, arrival, translated,
                   srtContent, audioFiles, srtFiles, outFiles, log, arg, result>>

WriteFileDone ==
    /\ pc = "writeFile"
    /\ srtFiles' = srtFiles \cup {baseName(videoFiles[vi])}
    /\ log' = log \o <<Line("SRT criado", baseName(videoFiles[vi])),
                       Line("Embutindo", "")>>
    /\ pc' = "burnSubtitles"
    /\ UNCHANGED <<files, videoFiles, vi, segments, requests, arrival, translated,
                   srtContent, audioFiles, outFiles, arg, result>>

BurnSubtitlesEnds ==
    /\ pc = "burnSubtitles"
    /\ outFiles' = outFiles \cup {baseName(videoFiles[vi])}
    /\ log' = Append(log, Line("Video final", baseName(videoFiles[vi])))
    /\ pc' = "remove"
    /\ UNCHANGED <<files, videoFiles, vi, segments, requests, arrival, translated,
                   srtContent, audioFiles, srtFiles, arg, result>>

RemoveDone ==
    /\ pc = "remove"
    /\ audioFiles' = audioFiles \ {baseName(videoFiles[vi])}
    /\ IF vi < Len(videoFiles)
       THEN StartVideo(vi + 1, videoFiles)
       ELSE /\ log' = Append(log, Line("Processo concluido", ""))
            /\ pc' = "done"
            /\ UNCHANGED <<vi, segments, requests, arrival, translated, srtContent>>
    /\ UNCHANGED <<files, videoFiles, srtFiles, outFiles, arg, result>>

\* The catch sits inside the loop: after a rejection main goes on with the
\* next video.
RejectAndContinue ==
    /\ pc \in AwaitPoints
    /\ IF vi >= 1 /\ vi < Len(videoFiles)
       THEN StartVideo(vi + 1, videoFiles)
       ELSE Catch(pc) /\ UNCHANGED <<vi, segments, requests, arrival, translated,
                                     srtContent>>
    /\ UNCHANGED <<files, videoFiles, audioFiles, srtFiles, outFiles, arg, result>>

\* The file the call awaited at p creates for the video named base: ffmpeg
\* and fs.writeFile open their output before they can fail, so a call that
\* rejects may have left it (empty or truncated) or not.
OutputOf(p, base) ==
    [ audio |-> IF p = "extractAudio" THEN {base} ELSE {},
      srt |-> IF p = "writeFile" THEN {base} ELSE {},
      out |-> IF p = "burnSubtitles" THEN {base} ELSE {} ]

\* The awaited call of a collaborator rejects: main's catch runs, and cleans
\* nothing of what the call has left.
Reject ==
    /\ pc \in AwaitPoints
    /\ Catch(pc)
    /\ \E left \in BOOLEAN :
         LET made == IF left /\ vi >= 1
                     THEN OutputOf(pc, baseName(videoFiles[vi]))
                     ELSE OutputOf("none", "")
         IN  /\ audioFiles' = audioFiles \cup made.audio
             /\ srtFiles' = srtFiles \cup made.srt
             /\ outFiles' = outFiles \cup made.out
    /\ UNCHANGED <<files, videoFiles, vi, segments, requests, arrival, translated,
                   srtContent, arg, result>>

Next ==
    \/ EnsureSubtitlesDir
    \/ EnsureOutputDir
    \/ ReadDir
    \/ ExtractAudioEnds
    \/ \E segs \in Transcripts : TranscriptionResponds(segs)
    \/ \E i \in 1..MaxSegs, resp \in Completions : ChatCompletionResponds(i, resp)
    \/ \E i \in 1..MaxSegs : ChatCompletionFails(i)
    \/ \E i \in 1..MaxSegs : ChatCompletionLost(i)
    \/ WriteFileDone
    \/ BurnSubtitlesEnds
    \/ RemoveDone
    \/ Reject

Spec == Init /\ [][Next]_vars

\* Every outstanding call of a collaborator ends, and the continuation that
\* waits for it runs; only a lost request stays without a response.
FairSpec == Spec /\ WF_vars(Next)

-----------------------------------------------------------------------------
\* Direct calls of secondsToSrtTime and buildSrtFromSegments

WholeSeconds == {0, 1, 59, 60, 3599, 3600, 3661, 86399, 359999, 360000}

\* Fractions of a second in ticks: 1500 is 500 ms, 2997 is 999 ms, 2998 is
\* 999.33 ms and 2999 is 999.67 ms.
Fractions == {0, 1, 2, 1499, 1500, 1501, 2997, 2998, 2999}

FmtTimes ==
    {Ticks(w * TicksPerSecond + f) : w \in WholeSeconds, f \in Fractions}
    \cup {Ticks(-1), Ticks(-4500), Ticks(-(3600 * TicksPerSecond)), NaN}

\* Translated segments: the two of the German example, one with an empty
\* text, and one that lies before them in time.
TSegA == [id |-> 0, start |-> Ticks(0), end |-> Ticks(3600), text |-> Hello]
TSegB == [id |-> 1, start |-> Ticks(3600), end |-> Ticks(10500),
          text |-> <<"H", "o", "w", " ", "a", "r", "e", " ", "y", "o", "u", "?">>]
TSegEmpty == [id |-> 5, start |-> Ticks(10500), end |-> Ticks(10500), text |-> <<>>]
TSegEarly == [id |-> 9, start |-> Ticks(1), end |-> Ticks(2999), text |-> <<"x">>]

TranslatedPool == {TSegA, TSegB, TSegEmpty, TSegEarly}

BuildInputs == SeqsUpTo(TranslatedPool, MaxSegs)

PureCalls ==
    {[fn |-> "secondsToSrtTime", in |-> t] : t \in FmtTimes}
    \cup {[fn |-> "buildSrtFromSegments", in |-> segs] : segs \in BuildInputs}

PureInit ==
    /\ files = <<>>
    /\ videoFiles = <<>>
    /\ vi = 0
    /\ pc = "done"
    /\ segments = <<>>
    /\ requests = <<>>
    /\ arrival = <<>>
    /\ translated = <<>>
    /\ srtContent = <<>>
    /\ audioFiles = {}
    /\ srtFiles = {}
    /\ outFiles = {}
    /\ log = <<>>
    /\ arg \in PureCalls
    /\ result = [called |-> FALSE, value |-> <<>>]

CallSecondsToSrtTime ==
    /\ arg.fn = "secondsToSrtTime"
    /\ ~result.called
    /\ result' = [called |-> TRUE, value |-> secondsToSrtTime(arg.in)]
    /\ UNCHANGED <<pipelineVars, arg>>

CallBuildSrtFromSegments ==
    /\ arg.fn = "buildSrtFromSegments"
    /\ ~result.called
    /\ result' = [called |-> TRUE, value |-> buildSrtFromSegments(arg.in)]
    /\ UNCHANGED <<pipelineVars, arg>>

PureNext == CallSecondsToSrtTime \/ CallBuildSrtFromSegments

PureSpec == PureInit /\ [][PureNext]_vars

-----------------------------------------------------------------------------
\* Reading a document back

\* The lines of a text: the pieces between its newlines (the piece after the
\* last newline only if it is not empty).
NewlinesOf(s) == {k \in 1..Len(s) : s[k] = "\n"}

\* The position of the n-th newline of s; 0 for n = 0.
NthNewline(s, n) ==
    IF n = 0 THEN 0
    ELSE CHOOSE k \in NewlinesOf(s) :
             Cardinality({j \in NewlinesOf(s) : j <= k}) = n

LinesOf(doc) ==
    LET count == Cardinality(NewlinesOf(doc))
        ended == [n \in 1..count |->
                    SubSeq(doc, NthNewline(doc, n - 1) + 1, NthNewline(doc, n) - 1)]
        rest == SubSeq(doc, NthNewline(doc, count) + 1, Len(doc))
    IN  IF rest = <<>> THEN ended ELSE Append(ended, rest)

Arrow == <<" ", "-", "-", ">", " ">>

\* The part of a rendered time after its comma.
RECURSIVE AfterComma(_)
AfterComma(s) ==
    IF s = <<>> THEN <<>>
    ELSE IF s[1] = "," THEN Tail(s) ELSE AfterComma(Tail(s))

WellFormedTime(t) == ~t.nan /\ t.v >= 0

-----------------------------------------------------------------------------
\* C7: secondsToSrtTime carries a millisecond rounding result of 1000 into the
\* seconds: for a well-formed time whose fraction rounds to 1000 ms the result
\* is the rendering of the next whole second, and the mmm field always has
\* exactly three digits.
C7_CarryIntoSeconds ==
    (arg.fn = "secondsToSrtTime" /\ result.called /\ WellFormedTime(arg.in)) =>
        LET t == arg.in.v
            whole == t \div TicksPerSecond
            ms == MathRound((t % TicksPerSecond) * 1000, TicksPerSecond)
        IN  /\ Len(AfterComma(result.value)) = 3
            /\ ms = 1000 =>
                 result.value = secondsToSrtTime(Ticks((whole + 1) * TicksPerSecond))

\* C8: buildSrtFromSegments emits, for K segments, exactly K blocks of four
\* lines in input order: the number i+1, the two rendered times joined by
\* " --> ", the text, and a blank line; the two-segment example gives the
\* document of the specification.
C8_CueBlocksInInputOrder ==
    (arg.fn = "buildSrtFromSegments" /\ result.called) =>
        LET segs == arg.in
            lines == LinesOf(result.value)
        IN  /\ Len(lines) = 4 * Len(segs)
            /\ \A i \in 0..(Len(segs) - 1) :
                 /\ lines[4 * i + 1] = NatToString(i + 1)
                 /\ lines[4 * i + 2] =
                        secondsToSrtTime(segs[i + 1].start) \o Arrow
                        \o secondsToSrtTime(segs[i + 1].end)
                 /\ lines[4 * i + 3] = segs[i + 1].text
                 /\ lines[4 * i + 4] = <<>>
            /\ segs = <<TSegA, TSegB>> =>
                 Str(result.value) =
                     "1\n00:00:00,000 --> 00:00:01,200\nHello\n\n"
                     \o "2\n00:00:01,200 --> 00:00:03,500\nHow are you?\n\n"

\* A document was built from two segments given against their times and with
\* gaps in their own numbering.
C8_Witness ==
    /\ arg.fn = "buildSrtFromSegments"
    /\ result.called
    /\ arg.in = <<TSegB, TSegEarly>>

-----------------------------------------------------------------------------
\* Claims about the pipeline

\* translateSegmentsWithGPT has returned for the current video: main holds
\* translatedSegments and is past the build of the document.
Returned == pc \in {"writeFile", "burnSubtitles", "remove"}

CurrentBase == baseName(videoFiles[vi])

LastLine == log[Len(log)]

RejectedRequests == {i \in 1..Len(requests) : requests[i].status = "rejected"}

\* C1: whatever the order in which the requests complete, the i-th element of
\* the result is built from the i-th segment and from the response to the
\* request issued for the i-th segment.
C1_IndexCorrespondence ==
    Returned =>
        /\ Len(translated) = Len(segments)
        /\ \A i \in 1..Len(segments) :
             /\ translated[i].id = segments[i].id
             /\ translated[i].text = TranslatedText(requests[i].value)

\* The second request completed before the first, and the two responses
\* gave different texts.
C1_Witness ==
    /\ Returned
    /\ arrival = <<2, 1>>
    /\ translated[1].text # translated[2].text

\* C2: when exactly one of the N requests fails and the others succeed, the
\* translator still returns N elements, every other index carrying its own
\* translated text, and main goes on.
C2_FailureIsolated ==
    ( /\ Cardinality(RejectedRequests) = 1
      /\ \A i \in 1..Len(requests) :
           i \notin RejectedRequests =>
               requests[i].status = "fulfilled" /\ ~ReadThrows(requests[i].value) )
    => /\ Returned
       /\ Len(translated) = Len(segments)
       /\ \A i \in 1..Len(requests) :
            i \notin RejectedRequests =>
                translated[i].text = TranslatedText(requests[i].value)

\* C3: a failure while processing one video does not prevent the later
\* videos from being attempted: once main has ended, a PROCESSANDO line was
\* printed for every video of the batch.
C3_LaterVideosAttempted ==
    pc = "done" =>
        \A k \in 1..Len(videoFiles) :
            \E n \in 1..Len(log) :
                log[n] = Line("PROCESSANDO", baseName(videoFiles[k]))

\* C4: once main has ended, whether by success or by a failure, no extracted
\* audio file remains.
C4_AudioRemoved == pc = "done" => audioFiles = {}

\* C5: the SRT file of a video is written, and burnSubtitles invoked, only if
\* every translation request of that video was fulfilled; after a failure of
\* the transcription or of the translation the video has neither an SRT file
\* nor an output video.
C5_NoSrtUnlessAllTranslated ==
    /\ (vi >= 1 /\ (Returned \/ CurrentBase \in srtFiles \/ CurrentBase \in outFiles)) =>
           /\ Len(requests) = Len(segments)
           /\ \A i \in 1..Len(requests) : requests[i].status = "fulfilled"
    /\ ( /\ pc = "done"
         /\ log # <<>>
         /\ LastLine.msg = "Erro geral"
         /\ LastLine.info \in {"createTranscription", "createChatCompletion", "TypeError"} )
       => CurrentBase \notin srtFiles /\ CurrentBase \notin outFiles

\* The SRT file of a video with two segments was written and the compositing
\* invoked.
C5_Witness ==
    /\ pc = "burnSubtitles"
    /\ Len(requests) = 2
    /\ CurrentBase \in srtFiles

\* C6: the result has as many elements as the input, element i differs from
\* segment i in its text at most (start and end are copied), and the input
\* segments are not modified while the translator runs.
C6_OnlyTextDiffers ==
    Returned =>
        /\ Len(translated) = Len(segments)
        /\ \A i \in 1..Len(segments) :
             /\ translated[i].start = segments[i].start
             /\ translated[i].end = segments[i].end
             /\ [translated[i] EXCEPT !.text = segments[i].text] = segments[i]

C6_TimingCopied ==
    /\ []C6_OnlyTextDiffers
    /\ [][pc = "translate" => segments' = segments]_vars

\* Two segments were translated and the text of one of them changed.
C6_Witness ==
    /\ Returned
    /\ Len(segments) = 2
    /\ \E i \in 1..2 : translated[i].text # segments[i].text

\* C9: no SRT file is written for a video one of whose segments has a
\* negative or NaN start or end.
C9_MalformedTimingRejected ==
    (vi >= 1 /\ CurrentBase \in srtFiles) =>
        \A i \in 1..Len(segments) :
            WellFormedTime(segments[i].start) /\ WellFormedTime(segments[i].end)

\* C10: translateSegmentsWithGPT eventually returns (or fails) for every
\* video, even if some request never receives a response.
C10_TranslatorReturns == (pc = "translate") ~> (pc # "translate")

\* C11: a failure of the transcription or of the compositing of a video leaves
\* no partial state of that video behind: neither its SRT file, nor its
\* extracted audio, nor an output video remains.
C11_NoPartialState ==
    ( /\ pc = "done"
      /\ log # <<>>
      /\ LastLine.msg = "Erro geral"
      /\ LastLine.info \in {"createTranscription", "burnSubtitles"} )
    => /\ CurrentBase \notin srtFiles
       /\ CurrentBase \notin audioFiles
       /\ CurrentBase \notin outFiles

\* The compositing of a video failed and its SRT file is still there.
C11_SrtLeftBehind ==
    /\ pc = "done"
    /\ log # <<>>
    /\ LastLine = Line("Erro geral", "burnSubtitles")
    /\ CurrentBase \in srtFiles

\* C12: with zero segments translateSegmentsWithGPT issues no request and
\* returns the empty sequence, buildSrtFromSegments returns the empty string,
\* and no error is raised: main goes from the transcription straight to the
\* writing of the (empty) document.
C12_EmptyReturned ==
    (Returned /\ segments = <<>>) =>
        /\ requests = <<>>
        /\ arrival = <<>>
        /\ translated = <<>>
        /\ srtContent = <<>>

C12_EmptyTranscript ==
    /\ []C12_EmptyReturned
    /\ [][ ( /\ pc = "createTranscription"
             /\ pc' # pc
             /\ LastLine' # Line("Erro geral", "createTranscription")
             /\ segments' = <<>> )
           => (pc' = "writeFile" /\ requests' = <<>> /\ srtContent' = <<>>) ]_vars

\* The transcription of a video returned no segment and main is writing the
\* document.
C12_Witness ==
    /\ pc = "writeFile"
    /\ segments = <<>>
    /\ LastLine = Line("Traduzindo", "")

\* C14: for N segments exactly one request per segment is issued, and all N
\* are issued in the step in which the transcription returns, before the
\* translator waits on any response; none is issued later.
C14_OneRequestPerSegment ==
    pc = "translate" => Len(requests) = Len(segments)

C14_AllIssuedAtOnce ==
    /\ []C14_OneRequestPerSegment
    /\ [][ (pc = "createTranscription" /\ pc' = "translate") =>
             /\ Len(requests') = Len(segments')
             /\ \A i \in 1..Len(requests') : requests'[i] = Pending ]_vars
    /\ [][ (pc = "translate" /\ pc' = "translate") =>
             Len(requests') = Len(requests) ]_vars

\* Both requests of a video with two segments are in flight at once.
C14_Witness ==
    /\ pc = "translate"
    /\ Len(segments) = 2
    /\ Len(requests) = 2
    /\ \A i \in 1..2 : requests[i].status = "pending"

\* C15: the translator hands over its result only after all requests of the
\* video have completed: while the document is built, written or burned, no
\* request of the video is outstanding and the result has an element for
\* every request.
C15_NoOutstandingRequest ==
    (vi >= 1 /\ (Returned \/ CurrentBase \in srtFiles)) =>
        /\ \A i \in 1..Len(requests) : requests[i].status \notin {"pending", "lost"}
        /\ Len(arrival) = Len(requests)
        /\ Len(translated) = Len(requests)

\* The document of a video with two segments is being written after both
\* requests completed.
C15_Witness ==
    /\ pc = "writeFile"
    /\ Len(requests) = 2
    /\ Len(arrival) = 2
    /\ srtContent # <<>>

\* The order of the stages of one video, as steps of main from one await to
\* the next; with no segment the translation has nothing to wait for.
StageOrder ==
    { <<"ensureSubtitlesDir", "ensureOutputDir">>,
      <<"ensureOutputDir", "readdir">>,
      <<"readdir", "extractAudio">>,
      <<"extractAudio", "createTranscription">>,
      <<"createTranscription", "translate">>,
      <<"createTranscription", "writeFile">>,
      <<"translate", "writeFile">>,
      <<"writeFile", "burnSubtitles">>,
      <<"burnSubtitles", "remove">>,
      <<"remove", "extractAudio">> }

\* What the completed stages of the current video have left behind.
C16_StageResultsPresent ==
    vi >= 1 =>
        /\ pc \in {"createTranscription", "translate", "writeFile",
                   "burnSubtitles", "remove"} => CurrentBase \in audioFiles
        /\ pc \in {"burnSubtitles", "remove"} => CurrentBase \in srtFiles
        /\ pc = "remove" => CurrentBase \in outFiles
        /\ CurrentBase \in outFiles => CurrentBase \in srtFiles

\* C16: for each video the stages run in the order extract, transcribe,
\* translate, write the document, composite, remove the audio; a stage starts
\* only when the previous one has completed successfully, after a failure
\* nothing more starts, and compositing is invoked only for a video whose
\* document has been written.
C16_StagesInOrder ==
    /\ []C16_StageResultsPresent
    /\ [][pc' # pc => (pc' = "done" \/ <<pc, pc'>> \in StageOrder)]_vars
    /\ [][pc = "done" => pc' = "done"]_vars

\* The second video of a batch has been composited.
C16_Witness ==
    /\ pc = "remove"
    /\ vi = 2
    /\ CurrentBase \in outFiles

\* The lines of the log printed for the current video: those after its
\* PROCESSANDO line.
LastStart ==
    IF \E n \in 1..Len(log) : log[n].msg = "PROCESSANDO"
    THEN CHOOSE n \in 1..Len(log) :
             /\ log[n].msg = "PROCESSANDO"
             /\ \A m \in (n + 1)..Len(log) : log[m].msg # "PROCESSANDO"
    ELSE 0

LinesOfCurrentVideo(msg) ==
    {n \in (LastStart + 1)..Len(log) : log[n].msg = msg}

\* main prints "Transcrevendo" right before it calls createTranscription and
\* "Embutindo" right before it calls burnSubtitles; a request settles once.
C17_AtMostOnce ==
    /\ Cardinality(LinesOfCurrentVideo("Transcrevendo")) <= 1
    /\ Cardinality(LinesOfCurrentVideo("Embutindo")) <= 1
    /\ Cardinality({n \in 1..Len(log) : log[n].msg = "PROCESSANDO"}) = vi
    /\ Len(requests) <= Len(segments)
    /\ \A i \in 1..Len(requests) :
         Cardinality({k \in 1..Len(arrival) : arrival[k] = i}) <= 1

\* C17: no collaborator call is retried: per video the transcription and the
\* compositing are invoked at most once, per segment at most one translation
\* request is issued, and after a failure nothing is invoked again.
C17_NoRetry ==
    /\ []C17_AtMostOnce
    /\ [][ \A i \in 1..Len(requests) :
             (vi' = vi /\ requests[i].status # "pending") =>
                 requests'[i] = requests[i] ]_vars
    /\ [][ pc = "done" => (log' = log /\ Len(requests') = Len(requests)) ]_vars

\* A request of a video with two segments was rejected and main has ended.
C17_Witness ==
    /\ pc = "done"
    /\ Len(requests) = 2
    /\ RejectedRequests # {}

\* text is content without its leading and trailing white space.
IsTrimOf(text, content) ==
    \E a \in 0..Len(content) :
        \E b \in a..Len(content) :
            /\ text = SubSeq(content, a + 1, b)
            /\ \A k \in 1..a : content[k] \in WhiteSpace
            /\ \A k \in (b + 1)..Len(content) : content[k] \in WhiteSpace
            /\ text # <<>> =>
                 (text[1] \notin WhiteSpace /\ text[Len(text)] \notin WhiteSpace)

\* C18: the text of a translated segment is the trimmed content of its
\* response; when that is empty, or the response carries no content, the text
\* is the empty string and the segment is still an element of the result,
\* which keeps the length of the input.
C18_TrimmedOrEmpty ==
    Returned =>
        /\ Len(translated) = Len(segments)
        /\ \A i \in 1..Len(translated) :
             /\ requests[i].status = "fulfilled"
             /\ IF requests[i].value.kind = "content"
                THEN IsTrimOf(translated[i].text, requests[i].value.content)
                ELSE translated[i].text = <<>>

\* One response had no content and the other only white space: both
\* segments are in the result, with empty texts.
C18_Witness ==
    /\ Returned
    /\ Len(translated) = 2
    /\ \E i, j \in 1..2 :
         /\ requests[i].value.kind = "noContent"
         /\ requests[j].value = [kind |-> "content", content |-> Blank]
         /\ translated[i].text = <<>>
         /\ translated[j].text = <<>>

\* Only the current video can have an extracted audio file; the videos before
\* it are complete and the videos after it untouched.
C19_OthersAtRest ==
    /\ audioFiles \subseteq (IF vi >= 1 THEN {CurrentBase} ELSE {})
    /\ \A k \in 1..(vi - 1) :
         /\ baseName(videoFiles[k]) \in srtFiles
         /\ baseName(videoFiles[k]) \in outFiles
         /\ baseName(videoFiles[k]) \notin audioFiles
    /\ \A k \in (vi + 1)..Len(videoFiles) :
         baseName(videoFiles[k]) \notin (audioFiles \cup srtFiles \cup outFiles)

\* C19: videos are processed strictly one at a time: main moves to the next
\* video only from the completed removal of the audio of the current one,
\* whose compositing is done and none of whose requests is in flight, so the
\* requests in flight always belong to the one video in process.
C19_OneVideoAtATime ==
    /\ []C19_OthersAtRest
    /\ [][ vi' # vi =>
             /\ vi' = vi + 1
             /\ vi >= 1 =>
                  /\ pc = "remove"
                  /\ CurrentBase \in outFiles
                  /\ CurrentBase \notin audioFiles'
                  /\ \A i \in 1..Len(requests) : requests[i].status = "fulfilled"
                  /\ requests' = <<>> ]_vars

\* The second video has a request in flight; the first one is complete.
C19_Witness ==
    /\ vi = 2
    /\ pc = "translate"
    /\ \E i \in 1..Len(requests) : requests[i].status = "pending"
    /\ baseName(videoFiles[1]) \in outFiles

Logged(msg) == \E n \in 1..Len(log) : log[n].msg = msg

\* C20: main prints the final success message only if every video of the
\* batch completed all its stages, compositing and audio removal included;
\* if a stage failed the success message is never printed and the error is.
C20_SuccessOnlyIfAllDone ==
    /\ Logged("Processo concluido") =>
         /\ pc = "done"
         /\ ~Logged("Erro geral")
         /\ Len(videoFiles) >= 1
         /\ vi = Len(videoFiles)
         /\ \A k \in 1..Len(videoFiles) :
              /\ baseName(videoFiles[k]) \in srtFiles
              /\ baseName(videoFiles[k]) \in outFiles
              /\ baseName(videoFiles[k]) \notin audioFiles
              /\ \E n \in 1..Len(log) :
                   log[n] = Line("Video final", baseName(videoFiles[k]))
    /\ Logged("Erro geral") =>
         /\ pc = "done"
         /\ LastLine.msg = "Erro geral"
         /\ ~Logged("Processo concluido")
    /\ (pc = "done" /\ Len(videoFiles) >= 1 /\ ~Logged("Processo concluido")) =>
         Logged("Erro geral")

\* A batch of two videos ended with the success message.
C20_Witness ==
    /\ Logged("Processo concluido")
    /\ Len(videoFiles) = 2
    /\ outFiles = {"a", "b"}

====
